---- MODULE Spec2Model ----
(***************************************************************************)
(* Lernify Road API (src/main.py, src/schemas.py).                         *)
(*                                                                         *)
(* The handlers are plain `def` FastAPI endpoints, so the framework runs   *)
(* them on a thread pool: several requests are in flight at once and the   *)
(* only atomic steps are the single calls on a MongoDB collection          *)
(* (find_one, insert_one, update_one).  Each handler is therefore a small  *)
(* process whose steps are its database calls; the computation a handler   *)
(* does on its own locals between two calls is folded into the call that   *)
(* follows it.                                                             *)
(*                                                                         *)
(* A collection is the sequence of its documents in insertion order, which *)
(* is the order a collection scan (no index is declared anywhere in the    *)
(* source) visits them: find_one and update_one act on the first match.    *)
(*                                                                         *)
(* The progression handlers touch db.roadmap, db.progress and              *)
(* db.assessmentresult only, the auth handlers db.user only (a user_id in  *)
(* a progress request is a raw string that is never looked up), so the two *)
(* groups are checked as separate specifications over the same state.      *)
(* The profile, dashboard and resume handlers write none of the state the  *)
(* properties below are about and are left out.                            *)
(***************************************************************************)
EXTENDS Integers, Sequences, FiniteSets, TLC

VARIABLES
    user,              \* db.user: sequence of user documents
    progress,          \* db.progress: sequence of Progress documents
    assessmentresult,  \* db.assessmentresult: sequence of AssessmentResult documents
    pc,                \* per worker thread: position in the handler it runs
    req,               \* per worker thread: the request payload
    loc,               \* per worker thread: the handler's local variables
    resp,              \* per worker thread: what the handler returned or raised
    nreq               \* number of requests accepted so far

vars == <<user, progress, assessmentresult, pc, req, loc, resp, nreq>>

(***************************************************************************)
(* Bounds of the model.                                                    *)
(***************************************************************************)
Workers == {"w1", "w2"}
MaxRequests == 3
MaxAnswers == 2

UserIds == {"u1", "u2"}
ReqDomains == {"frontend", "backend", "devops"}
ReqOrders == 1 .. 4
AnswerChoices == {0, 1}

RECURSIVE SeqsUpTo(_, _)
SeqsUpTo(S, n) ==
    IF n = 0 THEN {<<>>}
    ELSE LET shorter == SeqsUpTo(S, n - 1)
         IN  shorter \cup {Append(s, x) : s \in {t \in shorter : Len(t) = n - 1}, x \in S}

AnswerLists == SeqsUpTo(AnswerChoices, MaxAnswers)

\* inputs of the concurrent specifications: a submission with no answer and the
\* answer keys of the first two frontend steps
FewAnswers == {<<>>, <<0, 1>>, <<1, 0>>}
FewDomains == {"frontend", "devops"}

Emails == {"a@x.io", "b@x.io"}
Passwords == {"secret1", "secret2"}
NewPasswords == {"secret2", "secret3"}
Qualifications == {"BCA", "MBA"}

(***************************************************************************)
(* Helpers.                                                                *)
(***************************************************************************)
Min(S) == CHOOSE x \in S : \A y \in S : x <= y
Max(a, b) == IF a >= b THEN a ELSE b
Elems(s) == {s[i] : i \in DOMAIN s}

\* collection.find_one(filter), given the indexes of the documents the filter
\* matches: the index of the first one, 0 for None
FindOne(matching) == IF matching = {} THEN 0 ELSE Min(matching)

\* collection.insert_one(doc): the document goes last; the store checks nothing
InsertOne(coll, doc) == Append(coll, doc)

NoReq == [op |-> "none"]
NoLoc == [at |-> "none"]
NoResp == [status |-> 0]

\* raise HTTPException(status_code, detail)
HTTPException(status, detail) == [status |-> status, detail |-> detail]

(***************************************************************************)
(* schemas.py                                                              *)
(***************************************************************************)
ALLOWED_QUALIFICATIONS ==
    {"B.Tech CSE", "B.Tech IT", "B.Sc IT", "BCA", "MCA", "M.Sc CS", "Diploma in CS/IT"}

\* Progress(user_id, domain, completed_steps=[], scores={}).model_dump()
EmptyProgress(u, d) ==
    [user_id |-> u, domain |-> d, completed_steps |-> <<>>, scores |-> <<>>]

\* AssessmentResult(...).model_dump()
AssessmentResult(u, d, n, score, total, passed) ==
    [user_id |-> u, domain |-> d, step_order |-> n,
     score |-> score, total |-> total, passed |-> passed]

(***************************************************************************)
(* Roadmaps: db.roadmap after ensure_roadmaps_seeded().  A step keeps its  *)
(* order and, per question, the answerIndex; no handler writes db.roadmap. *)
(***************************************************************************)
Step(order, answerIndexes) == [order |-> order, questions |-> answerIndexes]

SEED_ROADMAPS ==
    [d \in {"frontend", "backend", "ai-ml"} |->
        CASE d = "frontend" -> <<Step(1, <<0, 1>>), Step(2, <<1, 0>>), Step(3, <<1>>)>>
          [] d = "backend"  -> <<Step(1, <<1>>), Step(2, <<1>>), Step(3, <<0>>)>>
          [] d = "ai-ml"    -> <<Step(1, <<1>>), Step(2, <<0>>), Step(3, <<0>>)>>]

\* next((s for s in steps if s.get("order") == step_order), None): index, 0 for None
FindStep(steps, step_order) ==
    FindOne({i \in DOMAIN steps : steps[i].order = step_order})

(***************************************************************************)
(* Grading (submit_assessment, lines 274-280).                             *)
(***************************************************************************)
\* payload.step_order > 1 and (payload.step_order - 1) not in prog.get("completed_steps", [])
GateFromThirdStep(step_order, prog) ==
    step_order > 2 /\ (step_order - 1) \notin Elems(prog.completed_steps)

GateOnEarlierStep(step_order, prog) ==
    step_order > 2 /\ (step_order - 2) \notin Elems(prog.completed_steps)

GateBlocked(step_order, prog) ==
    step_order > 1 /\ (step_order - 1) \notin Elems(prog.completed_steps)

\* sum(1 for i, ans in enumerate(answers) if i < len(correct_indexes) and ans == correct_indexes[i])
\* (positions are 1-based here, 0-based in the source)
RECURSIVE SumMatches(_, _, _)
SumMatches(answers, correct_indexes, i) ==
    IF i > Len(answers) THEN 0
    ELSE (IF i <= Len(correct_indexes) /\ answers[i] = correct_indexes[i] THEN 1 ELSE 0)
         + SumMatches(answers, correct_indexes, i + 1)

Score(answers, correct_indexes) == SumMatches(answers, correct_indexes, 1)

\* int(0.6 * total).  0.6 is the double 0.6 - 0.2 * 2^-53; the product is rounded
\* to the nearest double and truncated.  When 5 divides total the exact product
\* lies (total / 5) * 2^-53 below the integer 3 * total / 5, less than half a unit
\* in the last place of that integer (never a power of two), so it rounds to it;
\* otherwise the fractional part is at least 0.2.  Either way the result is
\* floor(6 * total / 10).
IntSixTenths(total) == (6 * total) \div 10

\* passed = score >= max(1, int(0.6 * total))
PassedStrict(score, total) == score > Max(1, IntSixTenths(total))

Passed(score, total) == score >= Max(1, IntSixTenths(total))

\* db.assessmentresult.insert_one(result)
LogResultOnPass(log, result) == IF result.passed THEN Append(log, result) ELSE log

LogResult(log, result) == InsertOne(log, result)

\* if passed: (line 292)
RecordsAlways(passed) == TRUE

Records(passed) == passed

(***************************************************************************)
(* db.progress.update_one(filter, {$addToSet, $set}, upsert=True)          *)
(***************************************************************************)
\* "$addToSet": {"completed_steps": step_order}
Push(list, x) == Append(list, x)

AddToSet(list, x) == IF x \in Elems(list) THEN list ELSE Append(list, x)

\* f"scores.{step_order}": the decimal key of a step order
Digits == <<"0", "1", "2", "3", "4", "5", "6", "7", "8", "9">>

RECURSIVE Decimal(_)
Decimal(n) == IF n < 10 THEN Digits[n + 1] ELSE Decimal(n \div 10) \o Digits[(n % 10) + 1]

\* "$set": {"scores.<key>": score}; scores is a sequence of <<key, score>> fields
SetField(fields, key, value) ==
    LET i == FindOne({k \in DOMAIN fields : fields[k][1] = key})
    IN  IF i = 0 THEN Append(fields, <<key, value>>)
        ELSE [fields EXCEPT ![i] = <<key, value>>]

ProgressMatch(u, d, doc) == doc.user_id = u /\ doc.domain = d

FindProgress(u, d) ==
    FindOne({i \in DOMAIN progress : ProgressMatch(u, d, progress[i])})

UpdateProgress(coll, u, d, step_order, score) ==
    LET i == FindOne({k \in DOMAIN coll : ProgressMatch(u, d, coll[k])})
        Apply(doc) == [doc EXCEPT
                         !.completed_steps = AddToSet(@, step_order),
                         !.scores = SetField(@, Decimal(step_order), score)]
    IN  IF i = 0 THEN InsertOne(coll, Apply(EmptyProgress(u, d)))
        ELSE [coll EXCEPT ![i] = Apply(@)]

(***************************************************************************)
(* Initial state: the service has started, the roadmaps are seeded, the    *)
(* other collections are empty and every worker thread is idle.            *)
(***************************************************************************)
Init ==
    /\ user = <<>>
    /\ progress = <<>>
    /\ assessmentresult = <<>>
    /\ pc = [p \in Workers |-> "idle"]
    /\ req = [p \in Workers |-> NoReq]
    /\ loc = [p \in Workers |-> NoLoc]
    /\ resp = [p \in Workers |-> NoResp]
    /\ nreq = 0

Accept(p) == pc[p] = "idle" /\ nreq < MaxRequests /\ nreq' = nreq + 1

Goto(p, label) == pc' = [pc EXCEPT ![p] = label]

\* the handler returns (or raises): its payload and locals die with its frame
Return(p, response) ==
    /\ pc' = [pc EXCEPT ![p] = "done"]
    /\ resp' = [resp EXCEPT ![p] = response]
    /\ req' = [req EXCEPT ![p] = NoReq]
    /\ loc' = [loc EXCEPT ![p] = NoLoc]

Receive(p, payload) == req' = [req EXCEPT ![p] = payload]

Locals(p, locals) == loc' = [loc EXCEPT ![p] = locals]

\* the response leaves the worker, which becomes free for the next request
Respond(p) ==
    /\ pc[p] = "done"
    /\ pc' = [pc EXCEPT ![p] = "idle"]
    /\ resp' = [resp EXCEPT ![p] = NoResp]
    /\ UNCHANGED <<user, progress, assessmentresult, req, loc, nreq>>

(***************************************************************************)
(* GET /progress/{user_id}/{domain}                                        *)
(***************************************************************************)
\* prog = db.progress.find_one(...); if found, return it
GetProgressFind(p, u, d) ==
    /\ Accept(p)
    /\ LET i == FindProgress(u, d)
       IN  IF i # 0
           THEN Return(p, [status |-> 200, progress |-> progress[i]])
           ELSE /\ Goto(p, "gp_insert")
                /\ Receive(p, [op |-> "get_progress", user_id |-> u, domain |-> d])
                /\ Locals(p, [at |-> "gp", prog |-> EmptyProgress(u, d)])
                /\ UNCHANGED resp
    /\ UNCHANGED <<user, progress, assessmentresult>>

\* db.progress.insert_one(prog); return {"progress": prog}
GetProgressInsert(p) ==
    /\ pc[p] = "gp_insert"
    /\ progress' = InsertOne(progress, loc[p].prog)
    /\ Return(p, [status |-> 200, progress |-> loc[p].prog])
    /\ UNCHANGED <<user, assessmentresult, nreq>>

(***************************************************************************)
(* POST /assessments/submit                                                *)
(***************************************************************************)
\* lines 261-270: roadmap and step lookup, then prog = db.progress.find_one(...)
SubmitLookup(p, u, d, n, answers) ==
    /\ Accept(p)
    /\ IF d \notin DOMAIN SEED_ROADMAPS
       THEN Return(p, HTTPException(404, "Roadmap not found"))
       ELSE IF FindStep(SEED_ROADMAPS[d], n) = 0
       THEN Return(p, HTTPException(404, "Step not found"))
       ELSE LET step == SEED_ROADMAPS[d][FindStep(SEED_ROADMAPS[d], n)]
                i == FindProgress(u, d)
            IN  /\ Receive(p, [op |-> "submit_assessment", user_id |-> u,
                               domain |-> d, step_order |-> n, answers |-> answers])
                /\ UNCHANGED resp
                /\ IF i # 0
                   THEN /\ Goto(p, "sa_grade")
                        /\ Locals(p, [at |-> "sa", step |-> step, prog |-> progress[i]])
                   ELSE /\ Goto(p, "sa_insert_progress")
                        /\ Locals(p, [at |-> "sa", step |-> step,
                                      prog |-> EmptyProgress(u, d)])
    /\ UNCHANGED <<user, progress, assessmentresult>>

\* lines 271-273: if not prog: db.progress.insert_one(prog)
SubmitInsertProgress(p) ==
    /\ pc[p] = "sa_insert_progress"
    /\ progress' = InsertOne(progress, loc[p].prog)
    /\ Goto(p, "sa_grade")
    /\ UNCHANGED <<user, assessmentresult, req, loc, resp, nreq>>

\* lines 274-290 and, for a failed submission, 302: the gate check on the prog
\* read before, the grading, db.assessmentresult.insert_one(result)
SubmitGrade(p) ==
    /\ pc[p] = "sa_grade"
    /\ IF GateBlocked(req[p].step_order, loc[p].prog)
       THEN /\ Return(p, HTTPException(403, "Complete previous step first"))
            /\ UNCHANGED assessmentresult
       ELSE LET correct_indexes == loc[p].step.questions
                score == Score(req[p].answers, correct_indexes)
                total == Len(correct_indexes)
                passed == Passed(score, total)
                result == AssessmentResult(req[p].user_id, req[p].domain,
                                           req[p].step_order, score, total, passed)
            IN  /\ assessmentresult' = LogResult(assessmentresult, result)
                /\ IF Records(passed)
                   THEN /\ Goto(p, "sa_record")
                        /\ Locals(p, [at |-> "sa", result |-> result])
                        /\ UNCHANGED <<req, resp>>
                   ELSE Return(p, [status |-> 200, result |-> result, message |-> "Failed"])
    /\ UNCHANGED <<user, progress, nreq>>

\* lines 292-302: db.progress.update_one(..., upsert=True), then the response
SubmitRecordPass(p) ==
    /\ pc[p] = "sa_record"
    /\ progress' = UpdateProgress(progress, req[p].user_id, req[p].domain,
                                  req[p].step_order, loc[p].result.score)
    /\ Return(p, [status |-> 200, result |-> loc[p].result,
                  message |-> IF loc[p].result.passed THEN "Passed" ELSE "Failed"])
    /\ UNCHANGED <<user, assessmentresult, nreq>>

ProgressStep(p, users, domains, answerLists) ==
    \/ \E u \in users, d \in domains : GetProgressFind(p, u, d)
    \/ GetProgressInsert(p)
    \/ \E u \in users, d \in domains, n \in ReqOrders, a \in answerLists :
          SubmitLookup(p, u, d, n, a)
    \/ SubmitInsertProgress(p)
    \/ SubmitGrade(p)
    \/ SubmitRecordPass(p)
    \/ Respond(p)

(***************************************************************************)
(* Auth.  An _id is an ObjectId the store draws at insert_one, fresh for   *)
(* every document; a request names a user by a string, which ObjectId(...) *)
(* parses or rejects.                                                      *)
(***************************************************************************)
\* hashlib.sha256(password.encode("utf-8")).hexdigest(): one digest per plaintext
hash_password(password) == <<"sha256", password>>

NewObjectId(coll) == <<"ObjectId", Len(coll) + 1>>
\* str(_id) and ObjectId(user_id)
StrOfId(oid) == <<"hex", oid[2]>>
IsObjectIdStr(s) == s[1] = "hex"
ObjectId(s) == <<"ObjectId", s[2]>>

ReqUserIdStrs == {<<"text", 0>>} \cup {<<"hex", k>> : k \in 1 .. MaxRequests}

FindUserByEmail(email) == FindOne({i \in DOMAIN user : user[i].email = email})

FindUserById(oid) == FindOne({i \in DOMAIN user : user[i]._id = oid})

\* user.get("password_hash") != hash_password(password)
DigestCheckSkipped(doc, password) == FALSE

DigestDiffers(doc, password) == doc.password_hash # hash_password(password)

\* {"password_hash": 0} projection / user.pop("password_hash"), then to_str_id
PublicUser(doc) ==
    [id |-> StrOfId(doc._id), email |-> doc.email, qualification |-> doc.qualification]

\* the request is parsed and handed to its handler on a pool thread
AuthReceive(p, payload) ==
    /\ Accept(p)
    /\ Receive(p, payload)
    /\ Goto(p, payload.op)
    /\ UNCHANGED <<user, progress, assessmentresult, loc, resp>>

\* register, lines 149-152: allow-list check, then db.user.find_one({"email": ...})
RegisterCheck(p) ==
    /\ pc[p] = "register"
    /\ IF req[p].qualification \notin ALLOWED_QUALIFICATIONS
       THEN Return(p, HTTPException(403, "Only IT-related students can register"))
       ELSE IF FindUserByEmail(req[p].email) # 0
       THEN Return(p, HTTPException(400, "Email already registered"))
       ELSE /\ Goto(p, "register_insert")
            /\ UNCHANGED <<req, loc, resp>>
    /\ UNCHANGED <<user, progress, assessmentresult, nreq>>

\* register, lines 153-157: hash, db.user.insert_one(doc), read back without digest
RegisterInsert(p) ==
    /\ pc[p] = "register_insert"
    /\ LET doc == [_id |-> NewObjectId(user), email |-> req[p].email,
                   qualification |-> req[p].qualification,
                   password_hash |-> hash_password(req[p].password_hash)]
       IN  /\ user' = InsertOne(user, doc)
           /\ Return(p, [status |-> 200, user |-> PublicUser(doc)])
    /\ UNCHANGED <<progress, assessmentresult, nreq>>

\* login, lines 162-168
Login(p) ==
    /\ pc[p] = "login"
    /\ LET i == FindUserByEmail(req[p].email)
       IN  IF i = 0
           THEN Return(p, HTTPException(401, "Invalid credentials"))
           ELSE IF DigestDiffers(user[i], req[p].password)
           THEN Return(p, HTTPException(401, "Invalid credentials"))
           ELSE Return(p, [status |-> 200, user |-> PublicUser(user[i])])
    /\ UNCHANGED <<user, progress, assessmentresult, nreq>>

\* change_password, lines 173-181
ChangePasswordFind(p) ==
    /\ pc[p] = "change_password"
    /\ IF ~IsObjectIdStr(req[p].user_id)
       THEN Return(p, HTTPException(400, "Invalid user id"))
       ELSE LET i == FindUserById(ObjectId(req[p].user_id))
            IN  IF i = 0
                THEN Return(p, HTTPException(404, "User not found"))
                ELSE IF DigestDiffers(user[i], req[p].old_password)
                THEN Return(p, HTTPException(401, "Old password incorrect"))
                ELSE /\ Goto(p, "change_password_update")
                     /\ UNCHANGED <<req, loc, resp>>
    /\ UNCHANGED <<user, progress, assessmentresult, nreq>>

\* change_password, lines 182-183: db.user.update_one({"_id": _id}, {"$set": ...})
ChangePasswordUpdate(p) ==
    /\ pc[p] = "change_password_update"
    /\ LET i == FindUserById(ObjectId(req[p].user_id))
       IN  user' = IF i = 0 THEN user
                   ELSE [user EXCEPT ![i].password_hash = hash_password(req[p].new_password)]
    /\ Return(p, [status |-> 200, message |-> "Password updated"])
    /\ UNCHANGED <<progress, assessmentresult, nreq>>

RegisterRequests ==
    {[op |-> "register", email |-> e, password_hash |-> w, qualification |-> q] :
        e \in Emails, w \in Passwords, q \in Qualifications}

LoginRequests ==
    {[op |-> "login", email |-> e, password |-> w] :
        e \in Emails, w \in Passwords \cup NewPasswords}

ChangePasswordRequests ==
    {[op |-> "change_password", user_id |-> s, old_password |-> o, new_password |-> w] :
        s \in ReqUserIdStrs, o \in Passwords, w \in NewPasswords}

AuthStep(p) ==
    \/ \E payload \in RegisterRequests \cup LoginRequests \cup ChangePasswordRequests :
          AuthReceive(p, payload)
    \/ RegisterCheck(p)
    \/ RegisterInsert(p)
    \/ Login(p)
    \/ ChangePasswordFind(p)
    \/ ChangePasswordUpdate(p)
    \/ Respond(p)

\* any interleaving of the progression handlers
Next == \E p \in Workers : ProgressStep(p, UserIds, FewDomains, FewAnswers)

Spec == Init /\ [][Next]_vars

\* one request at a time: a request is accepted only while no other is in flight
OthersIdle(p) == \A q \in Workers \ {p} : pc[q] = "idle"

\* the progression handlers one request at a time, with every answer list
SeqProgressStep(p) ==
    \/ \E d \in ReqDomains : OthersIdle(p) /\ GetProgressFind(p, "u1", d)
    \/ GetProgressInsert(p)
    \/ \E d \in ReqDomains, n \in ReqOrders, a \in AnswerLists :
          OthersIdle(p) /\ SubmitLookup(p, "u1", d, n, a)
    \/ SubmitInsertProgress(p)
    \/ SubmitGrade(p)
    \/ SubmitRecordPass(p)
    \/ Respond(p)

SeqNext == \E p \in Workers : SeqProgressStep(p)

SeqSpec == Init /\ [][SeqNext]_vars

\* any interleaving of the auth handlers
AuthNext == \E p \in Workers : AuthStep(p)

AuthSpec == Init /\ [][AuthNext]_vars

\* the auth handlers one request at a time
SeqAuthStep(p) ==
    \/ \E payload \in RegisterRequests \cup LoginRequests \cup ChangePasswordRequests :
          OthersIdle(p) /\ AuthReceive(p, payload)
    \/ RegisterCheck(p)
    \/ RegisterInsert(p)
    \/ Login(p)
    \/ ChangePasswordFind(p)
    \/ ChangePasswordUpdate(p)
    \/ Respond(p)

SeqAuthNext == \E p \in Workers : SeqAuthStep(p)

SeqAuthSpec == Init /\ [][SeqAuthNext]_vars

(***************************************************************************)
(* Properties.                                                             *)
(***************************************************************************)
\* the worker that takes the step
Steps(p) == pc'[p] # pc[p]

\* what a read of the user's Progress for the domain finds: the completed steps
CompletedOf(u, d) ==
    LET i == FindProgress(u, d)
    IN  IF i = 0 THEN {} ELSE Elems(progress[i].completed_steps)

Last(s) == s[Len(s)]

\* C1: gate law.  When a submission for a step N > 1 of the roadmap reaches its
\* gate check while N-1 is not among the completed steps stored for its user and
\* domain, it is answered 403 whatever its answers, and it changes neither the
\* progress documents nor the assessment log.
C1_GateLaw ==
    [][\A p \in Workers :
          (/\ pc[p] = "sa_grade"
           /\ Steps(p)
           /\ req[p].step_order > 1
           /\ (req[p].step_order - 1) \notin CompletedOf(req[p].user_id, req[p].domain))
          => /\ resp'[p] = HTTPException(403, "Complete previous step first")
             /\ pc'[p] = "done"
             /\ progress' = progress
             /\ assessmentresult' = assessmentresult]_vars

\* a submission for step 2 was refused while step 1 is still not completed
C1_Witness ==
    \E p \in Workers :
        /\ pc[p] = "done"
        /\ resp[p].status = 403
        /\ \E u \in UserIds : FindProgress(u, "frontend") # 0 /\ CompletedOf(u, "frontend") = {}

\* C2: a step taken by anything but the recording of a passed submission leaves
\* every stored Progress document as it is and may only add a document with no
\* completed step and no score, so completed_steps and scores of every user and
\* domain read the same before and after a failed submission.
C2_FailureLeavesProgress ==
    [][\A p \in Workers :
          (Steps(p) /\ ~(pc[p] = "sa_record" /\ loc[p].result.passed))
          => /\ \A i \in DOMAIN progress : i \in DOMAIN progress' /\ progress'[i] = progress[i]
             /\ \A i \in DOMAIN progress' \ DOMAIN progress :
                   progress'[i].completed_steps = <<>> /\ progress'[i].scores = <<>>]_vars

\* the same step was failed twice and is still not completed
C2_Witness ==
    \E i, j \in DOMAIN assessmentresult :
        /\ i < j
        /\ assessmentresult[i] = assessmentresult[j]
        /\ ~assessmentresult[i].passed
        /\ FindProgress(assessmentresult[i].user_id, assessmentresult[i].domain) # 0
        /\ assessmentresult[i].step_order \notin
              CompletedOf(assessmentresult[i].user_id, assessmentresult[i].domain)
        /\ \A p \in Workers : pc[p] = "idle"

\* C3: completed_steps of every Progress document holds each step order at most
\* once, also after the same step was passed again, one after the other or
\* concurrently.
C3_NoDuplicateSteps ==
    \A i \in DOMAIN progress :
        Len(progress[i].completed_steps) = Cardinality(Elems(progress[i].completed_steps))

\* the same step was passed twice and both passes were recorded
C3_Witness ==
    /\ \A p \in Workers : pc[p] = "idle"
    /\ \E i, j \in DOMAIN assessmentresult :
          /\ i < j
          /\ assessmentresult[i] = assessmentresult[j]
          /\ assessmentresult[i].passed
          /\ assessmentresult[i].step_order \in
                CompletedOf(assessmentresult[i].user_id, assessmentresult[i].domain)

\* the key of the requested step, read from the roadmap
KeyOf(d, n) == SEED_ROADMAPS[d][FindStep(SEED_ROADMAPS[d], n)].questions

\* floor(0.6 * total) in the rationals
FloorSixTenths(total) == CHOOSE k \in 0 .. total : 10 * k <= 6 * total /\ 6 * total < 10 * (k + 1)

ExpectedResult(r) ==
    LET key == KeyOf(r.domain, r.step_order)
        score == Cardinality({i \in 1 .. Len(key) :
                                i \in DOMAIN r.answers /\ r.answers[i] = key[i]})
        total == Len(key)
    IN  AssessmentResult(r.user_id, r.domain, r.step_order, score, total,
                         score >= Max(1, FloorSixTenths(total)))

\* C4: a submission that gets past the lookups and the gate check persists one
\* AssessmentResult, and returns the same, with score = the number of questions
\* whose answer is present and right (extra answers ignored, missing ones wrong),
\* total = the number of questions, passed = (score >= max(1, floor(0.6 * total))).
C4_Grading ==
    [][\A p \in Workers :
          /\ (pc[p] = "sa_grade" /\ Steps(p) /\ resp'[p].status # 403)
             => /\ assessmentresult' = Append(assessmentresult, ExpectedResult(req[p]))
                /\ \/ pc'[p] = "sa_record" /\ loc'[p].result = ExpectedResult(req[p])
                   \/ pc'[p] = "done" /\ resp'[p].result = ExpectedResult(req[p])
          /\ (pc[p] = "sa_record" /\ Steps(p))
             => resp'[p].result = ExpectedResult(req[p])]_vars

\* a one-question step answered right, with an extra answer, was graded as passed
C4_Witness ==
    \E p \in Workers :
        /\ pc[p] = "sa_record"
        /\ loc[p].result.total = 1
        /\ loc[p].result.passed
        /\ Len(req[p].answers) = 2

\* C5: a submission is marked passed only if at least 60% of the answers are
\* right: 10 * score >= 6 * total.
C5_SixtyPercent ==
    \A i \in DOMAIN assessmentresult :
        assessmentresult[i].passed
        => 10 * assessmentresult[i].score >= 6 * assessmentresult[i].total

\* C6: the assessment log is append-only, with one entry per graded submission:
\* a step either leaves it alone or appends one entry, only the grading step of
\* a submission appends, and every submission that gets past the gate check
\* appends the entry of its user, domain and step, passed or failed.
C6_AppendOnlyLog ==
    [][/\ \/ assessmentresult' = assessmentresult
          \/ /\ Len(assessmentresult') = Len(assessmentresult) + 1
             /\ SubSeq(assessmentresult', 1, Len(assessmentresult)) = assessmentresult
             /\ \E p \in Workers : pc[p] = "sa_grade" /\ Steps(p)
       /\ \A p \in Workers :
             (pc[p] = "sa_grade" /\ Steps(p) /\ resp'[p].status # 403)
             => /\ Len(assessmentresult') = Len(assessmentresult) + 1
                /\ Last(assessmentresult').user_id = req[p].user_id
                /\ Last(assessmentresult').domain = req[p].domain
                /\ Last(assessmentresult').step_order = req[p].step_order]_vars

\* a failed and a passed submission are both logged, and so is a repeated one
C6_Witness ==
    /\ Len(assessmentresult) = 3
    /\ \E i, j, k \in DOMAIN assessmentresult :
          /\ i < j
          /\ assessmentresult[i] = assessmentresult[j]
          /\ ~assessmentresult[i].passed
          /\ assessmentresult[k].passed

\* C7: no two stored users have the same email.
C7_EmailUnique ==
    \A i, j \in DOMAIN user : user[i].email = user[j].email => i = j

\* C8: there is at most one Progress document per (user, domain).
C8_OneProgressPerPair ==
    \A i, j \in DOMAIN progress :
        (progress[i].user_id = progress[j].user_id /\ progress[i].domain = progress[j].domain)
        => i = j

\* C9: with the requests handled one after the other, login succeeds iff some
\* stored user has the email and the digest of the password given, and fails
\* with 401 "Invalid credentials" otherwise; a digest is stored at registration
\* as the digest of the registered password and changes only by a
\* change_password whose old password has the stored digest, to the digest of
\* the new password; a change_password with a wrong old password is answered
\* 401 and changes nothing.
C9_LoginLaw ==
    [][\A p \in Workers :
          /\ (pc[p] = "login" /\ Steps(p))
             => IF \E i \in DOMAIN user :
                      /\ user[i].email = req[p].email
                      /\ user[i].password_hash = hash_password(req[p].password)
                THEN resp'[p].status = 200 /\ resp'[p].user.email = req[p].email
                ELSE resp'[p] = HTTPException(401, "Invalid credentials")
          /\ (pc[p] = "register_insert" /\ Steps(p))
             => /\ Len(user') = Len(user) + 1
                /\ SubSeq(user', 1, Len(user)) = user
                /\ Last(user').email = req[p].email
                /\ Last(user').password_hash = hash_password(req[p].password_hash)
          /\ (pc[p] = "change_password" /\ Steps(p))
             => /\ user' = user
                /\ (\E i \in DOMAIN user :
                       /\ StrOfId(user[i]._id) = req[p].user_id
                       /\ user[i].password_hash # hash_password(req[p].old_password))
                   => resp'[p] = HTTPException(401, "Old password incorrect")
          /\ (pc[p] = "change_password_update" /\ Steps(p))
             => \E i \in DOMAIN user :
                   /\ StrOfId(user[i]._id) = req[p].user_id
                   /\ user[i].password_hash = hash_password(req[p].old_password)
                   /\ user' = [user EXCEPT
                                 ![i].password_hash = hash_password(req[p].new_password)]
          /\ (Steps(p) /\ pc[p] \notin {"register_insert", "change_password_update"})
             => user' = user]_vars

\* the third request, a login, succeeded for a user whose password was changed
C9_Witness ==
    \E p \in Workers :
        /\ nreq = 3
        /\ pc[p] = "done"
        /\ resp[p].status = 200
        /\ "user" \in DOMAIN resp[p]
        /\ \E i \in DOMAIN user :
              /\ StrOfId(user[i]._id) = resp[p].user.id
              /\ user[i].password_hash = hash_password("secret3")

PrefixClosed ==
    \A i \in DOMAIN progress :
        \A n \in Elems(progress[i].completed_steps) :
            n > 1 => (n - 1) \in Elems(progress[i].completed_steps)

\* C10: completion is prefix-closed and monotone: in every Progress document a
\* completed step N > 1 has N-1 completed too, and no step ever removes a
\* document or a step order from completed_steps, under any interleaving.
C10_PrefixClosedMonotone ==
    /\ PrefixClosed
    /\ [][/\ PrefixClosed'
          /\ \A i \in DOMAIN progress :
                /\ i \in DOMAIN progress'
                /\ progress'[i].user_id = progress[i].user_id
                /\ progress'[i].domain = progress[i].domain
                /\ Elems(progress[i].completed_steps)
                      \subseteq Elems(progress'[i].completed_steps)]_vars

\* steps 1 and 2 are completed
C10_Witness ==
    \E i \in DOMAIN progress : Elems(progress[i].completed_steps) = {1, 2}

====
